---- MODULE Spec2Model ----
(***************************************************************************)
(* The dataset-loading and feature-preparation cell of the brain-tumor     *)
(* notebooks (Brain_Tumor_Detection_RNN.ipynb, lines 34-74, and the SVM    *)
(* notebook, lines 36-72): load_images_from_folder, train_test_split,      *)
(* StandardScaler.fit_transform / transform and the RNN reshape.           *)
(*                                                                         *)
(* One run of the cell is a behaviour.  The directory listing and the      *)
(* outcome of decoding each entry are the inputs, fixed in Init.  Each     *)
(* iteration of the loading loop and each later statement of the cell is   *)
(* one action.  An uncaught exception ends the run in pc = "error".        *)
(*                                                                         *)
(* Scaled values are irrational in general (division by a square root),    *)
(* so a scaled cell is kept exactly as a record [num, den2] that stands    *)
(* for num / sqrt(den2); den2 = 0 is a division by zero (NaN or Inf).      *)
(***************************************************************************)
EXTENDS Integers, Sequences, FiniteSets, TLC

\* ----- bounds of the model ----------------------------------------------
\* Entries listed per class subdirectory: 0..MaxEntries.
MaxEntries == 3
\* Entries, over both subdirectories, whose decoding raises: 0..MaxBad.
MaxBad == 1
\* Side of the resized image.  The notebooks fix it at 64 (resize((64, 64)),
\* reshape((n, 64, 64))); the model keeps the code's arithmetic in terms of
\* SIDE and checks it at a small side.
SIDE == 2

\* ----- program constants -------------------------------------------------
\* test_size=0.25, as the fraction TestSizeNum / TestSizeDen.
TestSizeNum == 25
TestSizeDen == 100

\* enumerate(['no', 'yes'])
Subfolders == <<"no", "yes">>
data_folder == "./brain_tumor_dataset"

\* The calls of the try body, in order; an entry's "fails" field names the
\* one that raises, or "none".
TryStages == {"open", "convert", "resize", "flatten"}

RowLen == SIDE * SIDE

VARIABLES
    listing,      \* listing[l+1]: what os.listdir returned for subfolder l
    pc,           \* position in the cell
    label, pos,   \* loop indices of load_images_from_folder
    images, labels,   \* the two Python lists of load_images_from_folder
    out,          \* lines printed by the except branch
    X, y,         \* the loaded dataset
    idx_train, idx_test,   \* indices train_test_split selected
    X_train, X_test, y_train, y_test,
    scaler,       \* the StandardScaler's fitted attributes
    scaler_calls, \* the fit / transform calls made on the scaler, in order
    err,          \* the exception that ended the run, or "none"
    seeded,       \* seeded[n]: the permutation of 1..n that the generator
                  \* seeded with random_state=90 has been seen to give
    svm           \* the variables of a run of the SVM notebook's cell

\* The variables of the RNN notebook's run, and the listing both runs read.
rnnVars == <<listing, pc, label, pos, images, labels, out, X, y, idx_train,
             idx_test, X_train, X_test, y_train, y_test, scaler, scaler_calls, err>>

vars == <<rnnVars, seeded, svm>>

\* ----- helpers -----------------------------------------------------------
RECURSIVE SumSeq(_)
SumSeq(s) == IF s = <<>> THEN 0 ELSE Head(s) + SumSeq(Tail(s))

RECURSIVE Ravel(_)
\* C-order flattening of a sequence of rows: the rows one after another.
Ravel(m) == IF m = <<>> THEN <<>> ELSE Head(m) \o Ravel(Tail(m))

Range(s) == {s[i] : i \in 1..Len(s)}

\* ceil(a / b) for a >= 0, b > 0
CeilDiv(a, b) == (a + b - 1) \div b

\* ----- the loader --------------------------------------------------------
\* The flattened 64x64 grayscale image that open/convert/resize/flatten give
\* for entry `name` of subfolder l: RowLen intensities in 0..255.  Pixel 1 is
\* black in every image (a border pixel), pixel 2 depends on the class only.
Decode(l, name) ==
    [k \in 1..RowLen |->
        IF k = 1 THEN 0
        ELSE IF k = 2 THEN 255 * l
        ELSE (37 * name * k + 101 * l) % 256]

\* os.path.join(os.path.join(folder, subfolder), filename)
ImgPath(l, name) == <<data_folder, Subfolders[l + 1], name>>

\* The entry the loop is at.
CurEntry == listing[label + 1][pos]

\* Faulty variant: the label of the other subfolder is recorded.
AppendLabel_Swapped(ls, l) == Append(ls, 1 - l)

AppendLabel(ls, l) == Append(ls, l)

\* Faulty variant: the newest image goes to the front of the list.
AppendImage_Prepend(imgs, img) == <<img>> \o imgs

AppendImage(imgs, img) == Append(imgs, img)

\* One iteration whose try body runs to its end.
LoadImage ==
    /\ pc = "load"
    /\ label < Len(Subfolders)
    /\ pos <= Len(listing[label + 1])
    /\ CurEntry.fails = "none"
    /\ images' = AppendImage(images, Decode(label, CurEntry.name))
    /\ labels' = AppendLabel(labels, label)
    /\ pos' = pos + 1
    /\ UNCHANGED <<svm, seeded, listing, pc, label, out, X, y, idx_train, idx_test, X_train,
                   X_test, y_train, y_test, scaler, scaler_calls, err>>

\* Faulty variant: no try/except, the exception leaves the function.
LoadError_Aborts ==
    /\ pc = "load"
    /\ label < Len(Subfolders)
    /\ pos <= Len(listing[label + 1])
    /\ CurEntry.fails # "none"
    /\ pc' = "error"
    /\ err' = CurEntry.fails
    /\ UNCHANGED <<svm, seeded, listing, label, pos, images, labels, out, X, y, idx_train,
                   idx_test, X_train, X_test, y_train, y_test, scaler, scaler_calls>>

\* Faulty variant: the except branch substitutes a black image for the entry.
LoadError_Placeholder ==
    /\ pc = "load"
    /\ label < Len(Subfolders)
    /\ pos <= Len(listing[label + 1])
    /\ CurEntry.fails # "none"
    /\ out' = Append(out, [path |-> ImgPath(label, CurEntry.name),
                           reason |-> CurEntry.fails])
    /\ images' = Append(images, [k \in 1..RowLen |-> 0])
    /\ labels' = Append(labels, label)
    /\ pos' = pos + 1
    /\ UNCHANGED <<svm, seeded, listing, pc, label, X, y, idx_train, idx_test,
                   X_train, X_test, y_train, y_test, scaler, scaler_calls, err>>

\* One iteration whose try body raises: the except branch prints and the loop
\* goes on.
LoadError ==
    /\ pc = "load"
    /\ label < Len(Subfolders)
    /\ pos <= Len(listing[label + 1])
    /\ CurEntry.fails # "none"
    /\ out' = Append(out, [path |-> ImgPath(label, CurEntry.name),
                           reason |-> CurEntry.fails])
    /\ pos' = pos + 1
    /\ UNCHANGED <<svm, seeded, listing, pc, label, images, labels, X, y, idx_train, idx_test,
                   X_train, X_test, y_train, y_test, scaler, scaler_calls, err>>

\* The inner loop is exhausted: the outer loop takes the next subfolder.
NextSubfolder ==
    /\ pc = "load"
    /\ label < Len(Subfolders)
    /\ pos > Len(listing[label + 1])
    /\ label' = label + 1
    /\ pos' = 1
    /\ UNCHANGED <<svm, seeded, listing, pc, images, labels, out, X, y, idx_train, idx_test,
                   X_train, X_test, y_train, y_test, scaler, scaler_calls, err>>

\* return np.array(images), np.array(labels); X, y = ...
LoadReturn ==
    /\ pc = "load"
    /\ label = Len(Subfolders)
    /\ X' = images
    /\ y' = labels
    /\ pc' = "split"
    /\ UNCHANGED <<svm, seeded, listing, label, pos, images, labels, out, idx_train, idx_test,
                   X_train, X_test, y_train, y_test, scaler, scaler_calls, err>>

\* ----- train_test_split(X, y, test_size=0.25, random_state=90) ------------
\* Faulty variant: the test size is rounded down.
NTest_Floor(n) == (TestSizeNum * n) \div TestSizeDen

\* n_test = ceil(test_size * n_samples)
NTest(n) == CeilDiv(TestSizeNum * n, TestSizeDen)

\* train_size is None: n_train = n_samples - n_test
NTrain(n) == n - NTest(n)

\* Faulty variant: the sizes are not validated.
SplitValid_Unchecked(n) == TRUE

\* "the resulting train set will be empty": ValueError when n_train == 0
SplitValid(n) == NTrain(n) # 0

RECURSIVE Gcd(_, _)
Gcd(a, b) == IF b = 0 THEN a ELSE Gcd(b, a % b)

\* rng.permutation(n_samples) for the seeded generator.  The Mersenne Twister
\* stream is not modelled: the permutation is any one of a family of
\* permutations of 1..n, the maps i -> a * i + b (mod n) with a prime to n
\* (the rotations, the reversals and the strided orders).
ShufflePerms(n) ==
    {[i \in 1..n |-> ((a * (i - 1) + b) % n) + 1] :
        a \in {c \in 1..n : Gcd(c, n) = 1}, b \in 0..(n - 1)}

\* random_state=90: a generator seeded with the same integer gives the same
\* permutation of 1..n every time.  Which one it is gets fixed the first time a
\* split of n samples is made, and is the same from then on.
SeededPerms(n) == IF n \in DOMAIN seeded THEN {seeded[n]} ELSE ShufflePerms(n)

Reveal(known, n, perm) ==
    [k \in DOMAIN known \cup {n} |-> IF k = n THEN perm ELSE known[k]]

\* ind_test = permutation[:n_test]
IndTest(perm, n) == SubSeq(perm, 1, NTest(n))

\* Faulty variant: the train slice starts one index early.
IndTrain_Overlap(perm, n) == SubSeq(perm, NTest(n), NTest(n) + NTrain(n) - 1)

\* ind_train = permutation[n_test:(n_test + n_train)]
IndTrain(perm, n) == SubSeq(perm, NTest(n) + 1, NTest(n) + NTrain(n))

\* _safe_indexing(a, indices)
SafeIndex(arr, idx) == [i \in 1..Len(idx) |-> arr[idx[i]]]

TrainTestSplit ==
    /\ pc = "split"
    /\ SplitValid(Len(X))
    /\ \E perm \in SeededPerms(Len(X)) :
          /\ idx_train' = IndTrain(perm, Len(X))
          /\ idx_test' = IndTest(perm, Len(X))
          /\ seeded' = Reveal(seeded, Len(X), perm)
    /\ X_train' = SafeIndex(X, idx_train')
    /\ X_test' = SafeIndex(X, idx_test')
    /\ y_train' = SafeIndex(y, idx_train')
    /\ y_test' = SafeIndex(y, idx_test')
    /\ pc' = "scale"
    /\ UNCHANGED <<svm, listing, label, pos, images, labels, out, X, y, scaler,
                   scaler_calls, err>>

\* train_test_split raises: nothing catches it, the cell stops.
SplitError ==
    /\ pc = "split"
    /\ ~SplitValid(Len(X))
    /\ pc' = "error"
    /\ err' = "ValueError"
    /\ UNCHANGED <<svm, seeded, listing, label, pos, images, labels, out, X, y, idx_train,
                   idx_test, X_train, X_test, y_train, y_test, scaler, scaler_calls>>

\* ----- StandardScaler ----------------------------------------------------
NumFeatures(rows) == IF rows = <<>> THEN 0 ELSE Len(rows[1])

ColumnSum(rows, c) == SumSeq([i \in 1..Len(rows) |-> rows[i][c]])

ColumnSumSq(rows, c) == SumSeq([i \in 1..Len(rows) |-> rows[i][c] * rows[i][c]])

\* Faulty variant: the scale of a constant feature stays 0.
HandleZerosInScale_None(var_num, n) == var_num

\* _handle_zeros_in_scale: a constant feature gets scale 1.0.  Scales are kept
\* squared and times n^2, so 1.0 is n * n.
HandleZerosInScale(var_num, n) == IF var_num = 0 THEN n * n ELSE var_num

\* fit: with n rows, mean_ = mean_num / n, var_ = var_num / n^2 (population
\* variance) and scale_^2 = scale_sq_num / n^2.
StandardScalerFit(rows) ==
    LET n == Len(rows)
        var_num == [c \in 1..NumFeatures(rows) |->
                       n * ColumnSumSq(rows, c) - ColumnSum(rows, c) * ColumnSum(rows, c)]
    IN  [n_samples_seen |-> n,
         mean_num |-> [c \in 1..NumFeatures(rows) |-> ColumnSum(rows, c)],
         var_num |-> var_num,
         scale_sq_num |-> [c \in 1..NumFeatures(rows) |->
                              HandleZerosInScale(var_num[c], n)]]

\* transform: (x - mean_) / scale_ = (n x - mean_num) / sqrt(scale_sq_num)
StandardScalerTransform(sc, rows) ==
    [i \in 1..Len(rows) |->
        [c \in 1..Len(rows[i]) |->
            [num |-> sc.n_samples_seen * rows[i][c] - sc.mean_num[c],
             den2 |-> sc.scale_sq_num[c]]]]

\* scaler = StandardScaler(): nothing fitted yet
Unfitted == [n_samples_seen |-> 0, mean_num |-> <<>>, var_num |-> <<>>,
             scale_sq_num |-> <<>>]

\* Faulty variant: the scaler is fit on the whole dataset.
FitInput_All == X

\* The argument of fit_transform.
FitInput == X_train

\* scaler = StandardScaler(); X_train = scaler.fit_transform(X_train)
FitTransformTrain ==
    /\ pc = "scale"
    /\ scaler' = StandardScalerFit(FitInput)
    /\ X_train' = StandardScalerTransform(scaler', X_train)
    /\ scaler_calls' = scaler_calls \o <<[op |-> "fit", arg |-> FitInput],
                                         [op |-> "transform", arg |-> X_train]>>
    /\ pc' = "transform"
    /\ UNCHANGED <<svm, seeded, listing, label, pos, images, labels, out, X, y, idx_train,
                   idx_test, X_test, y_train, y_test, err>>

\* X_test = scaler.transform(X_test)
TransformTest ==
    /\ pc = "transform"
    /\ X_test' = StandardScalerTransform(scaler, X_test)
    /\ scaler_calls' = Append(scaler_calls, [op |-> "transform", arg |-> X_test])
    /\ pc' = "reshape_train"
    /\ UNCHANGED <<svm, seeded, listing, label, pos, images, labels, out, X, y, idx_train,
                   idx_test, X_train, y_train, y_test, scaler, err>>

\* ----- reshape((n, 64, 64)) ----------------------------------------------
\* numpy raises ValueError unless the element count is kept.
ReshapeOk(m, n, a, b) == Len(Ravel(m)) = n * a * b

\* Faulty variant: each block is filled in Fortran (column-major) order.
Reshape_ColumnMajor(m, n, a, b) ==
    LET flat == Ravel(m)
    IN  [s \in 1..n |-> [i \in 1..a |-> [j \in 1..b |->
            flat[(s - 1) * a * b + (j - 1) * a + i]]]]

\* The elements in C order, regrouped into n blocks of a rows of b values.
Reshape(m, n, a, b) ==
    LET flat == Ravel(m)
    IN  [s \in 1..n |-> [i \in 1..a |-> [j \in 1..b |->
            flat[(s - 1) * a * b + (i - 1) * b + j]]]]

\* X_train = X_train.reshape((X_train.shape[0], 64, 64))
ReshapeTrain ==
    /\ pc = "reshape_train"
    /\ ReshapeOk(X_train, Len(X_train), SIDE, SIDE)
    /\ X_train' = Reshape(X_train, Len(X_train), SIDE, SIDE)
    /\ pc' = "reshape_test"
    /\ UNCHANGED <<svm, seeded, listing, label, pos, images, labels, out, X, y, idx_train,
                   idx_test, X_test, y_train, y_test, scaler, scaler_calls, err>>

ReshapeTrainError ==
    /\ pc = "reshape_train"
    /\ ~ReshapeOk(X_train, Len(X_train), SIDE, SIDE)
    /\ pc' = "error"
    /\ err' = "ValueError"
    /\ UNCHANGED <<svm, seeded, listing, label, pos, images, labels, out, X, y, idx_train,
                   idx_test, X_train, X_test, y_train, y_test, scaler, scaler_calls>>

\* X_test = X_test.reshape((X_test.shape[0], 64, 64))
ReshapeTest ==
    /\ pc = "reshape_test"
    /\ ReshapeOk(X_test, Len(X_test), SIDE, SIDE)
    /\ X_test' = Reshape(X_test, Len(X_test), SIDE, SIDE)
    /\ pc' = "done"
    /\ UNCHANGED <<svm, seeded, listing, label, pos, images, labels, out, X, y, idx_train,
                   idx_test, X_train, y_train, y_test, scaler, scaler_calls, err>>

ReshapeTestError ==
    /\ pc = "reshape_test"
    /\ ~ReshapeOk(X_test, Len(X_test), SIDE, SIDE)
    /\ pc' = "error"
    /\ err' = "ValueError"
    /\ UNCHANGED <<svm, seeded, listing, label, pos, images, labels, out, X, y, idx_train,
                   idx_test, X_train, X_test, y_train, y_test, scaler, scaler_calls>>

\* ----- the SVM notebook's cell ---------------------------------------------
\* The SVM notebook holds its own copy of load_images_from_folder and of the
\* split and scaling statements, and no reshape.  Its run reads the same
\* directory (listing) and keeps its variables in the record svm.  The two
\* notebooks are run one after the other: the SVM run starts once the RNN
\* run has ended.
SvmStart ==
    [pc |-> "load", label |-> 0, pos |-> 1, images |-> <<>>, labels |-> <<>>,
     out |-> <<>>, X |-> <<>>, y |-> <<>>, idx_train |-> <<>>, idx_test |-> <<>>,
     X_train |-> <<>>, X_test |-> <<>>, y_train |-> <<>>, y_test |-> <<>>,
     scaler |-> Unfitted, err |-> "none"]

RnnEnded == pc \in {"done", "error"}

SvmCurEntry == listing[svm.label + 1][svm.pos]

SvmLoadImage ==
    /\ RnnEnded
    /\ svm.pc = "load"
    /\ svm.label < Len(Subfolders)
    /\ svm.pos <= Len(listing[svm.label + 1])
    /\ SvmCurEntry.fails = "none"
    /\ svm' = [svm EXCEPT
                  !.images = Append(@, Decode(svm.label, SvmCurEntry.name)),
                  !.labels = Append(@, svm.label),
                  !.pos = @ + 1]
    /\ UNCHANGED <<rnnVars, seeded>>

SvmLoadError ==
    /\ RnnEnded
    /\ svm.pc = "load"
    /\ svm.label < Len(Subfolders)
    /\ svm.pos <= Len(listing[svm.label + 1])
    /\ SvmCurEntry.fails # "none"
    /\ svm' = [svm EXCEPT
                  !.out = Append(@, [path |-> ImgPath(svm.label, SvmCurEntry.name),
                                     reason |-> SvmCurEntry.fails]),
                  !.pos = @ + 1]
    /\ UNCHANGED <<rnnVars, seeded>>

SvmNextSubfolder ==
    /\ RnnEnded
    /\ svm.pc = "load"
    /\ svm.label < Len(Subfolders)
    /\ svm.pos > Len(listing[svm.label + 1])
    /\ svm' = [svm EXCEPT !.label = @ + 1, !.pos = 1]
    /\ UNCHANGED <<rnnVars, seeded>>

SvmLoadReturn ==
    /\ RnnEnded
    /\ svm.pc = "load"
    /\ svm.label = Len(Subfolders)
    /\ svm' = [svm EXCEPT !.X = svm.images, !.y = svm.labels, !.pc = "split"]
    /\ UNCHANGED <<rnnVars, seeded>>

\* Faulty variant: random_state is left out, every split shuffles afresh.
SvmPerms_Unseeded(n) == ShufflePerms(n)

\* train_test_split(..., random_state=90) in the SVM notebook
SvmPerms(n) == SeededPerms(n)

SvmTrainTestSplit ==
    /\ RnnEnded
    /\ svm.pc = "split"
    /\ SplitValid(Len(svm.X))
    /\ \E perm \in SvmPerms(Len(svm.X)) :
          /\ svm' = [svm EXCEPT
                        !.idx_train = IndTrain(perm, Len(svm.X)),
                        !.idx_test = IndTest(perm, Len(svm.X)),
                        !.X_train = SafeIndex(svm.X, IndTrain(perm, Len(svm.X))),
                        !.X_test = SafeIndex(svm.X, IndTest(perm, Len(svm.X))),
                        !.y_train = SafeIndex(svm.y, IndTrain(perm, Len(svm.X))),
                        !.y_test = SafeIndex(svm.y, IndTest(perm, Len(svm.X))),
                        !.pc = "scale"]
          /\ seeded' = Reveal(seeded, Len(svm.X), perm)
    /\ UNCHANGED rnnVars

SvmSplitError ==
    /\ RnnEnded
    /\ svm.pc = "split"
    /\ ~SplitValid(Len(svm.X))
    /\ svm' = [svm EXCEPT !.pc = "error", !.err = "ValueError"]
    /\ UNCHANGED <<rnnVars, seeded>>

\* scaler = StandardScaler(); X_train = scaler.fit_transform(X_train)
SvmFitTransformTrain ==
    /\ RnnEnded
    /\ svm.pc = "scale"
    /\ svm' = [svm EXCEPT
                  !.scaler = StandardScalerFit(svm.X_train),
                  !.X_train = StandardScalerTransform(
                                  StandardScalerFit(svm.X_train), svm.X_train),
                  !.pc = "transform"]
    /\ UNCHANGED <<rnnVars, seeded>>

\* X_test = scaler.transform(X_test); the cell ends
SvmTransformTest ==
    /\ RnnEnded
    /\ svm.pc = "transform"
    /\ svm' = [svm EXCEPT
                  !.X_test = StandardScalerTransform(svm.scaler, svm.X_test),
                  !.pc = "done"]
    /\ UNCHANGED <<rnnVars, seeded>>

\* ----- one run of the cell -----------------------------------------------
\* A listing of n entries; the names come in descending order (os.listdir
\* promises no order).
Listings(n) ==
    {[p \in 1..n |-> [name |-> n + 1 - p, fails |-> f[p]]] :
        f \in [1..n -> {"none"} \cup TryStages]}

BadCount(l) == Cardinality({p \in 1..Len(l) : l[p].fails # "none"})

ClassListings ==
    {l \in UNION {Listings(n) : n \in 0..MaxEntries} : BadCount(l) <= MaxBad}

Init ==
    /\ listing \in {<<no, yes>> : no \in ClassListings, yes \in ClassListings}
    /\ BadCount(listing[1]) + BadCount(listing[2]) <= MaxBad
    /\ pc = "load"
    /\ label = 0
    /\ pos = 1
    /\ images = <<>>
    /\ labels = <<>>
    /\ out = <<>>
    /\ X = <<>>
    /\ y = <<>>
    /\ idx_train = <<>>
    /\ idx_test = <<>>
    /\ X_train = <<>>
    /\ X_test = <<>>
    /\ y_train = <<>>
    /\ y_test = <<>>
    /\ scaler = Unfitted
    /\ scaler_calls = <<>>
    /\ err = "none"
    /\ seeded = <<>>
    /\ svm = SvmStart

Next ==
    \/ LoadImage
    \/ LoadError
    \/ NextSubfolder
    \/ LoadReturn
    \/ TrainTestSplit
    \/ SplitError
    \/ FitTransformTrain
    \/ TransformTest
    \/ ReshapeTrain
    \/ ReshapeTest

Spec == Init /\ [][Next]_vars

\* A run of the RNN notebook's cell followed by a run of the SVM notebook's.
NextBoth ==
    \/ Next
    \/ SvmLoadImage
    \/ SvmLoadError
    \/ SvmNextSubfolder
    \/ SvmLoadReturn
    \/ SvmTrainTestSplit
    \/ SvmSplitError
    \/ SvmFitTransformTrain
    \/ SvmTransformTest

SpecBoth == Init /\ [][NextBoth]_vars

\* ----- the reshape step on arbitrary matrices -----------------------------
\* Rows per matrix handed to the reshape step: 1..MaxRows.
MaxRows == 2

\* Row lengths tried: every length up to one past SIDE * SIDE.
RowLens == 0..(RowLen + 1)

\* Matrices of n rows of length len; row s holds (v[s] * k + s) % 256 at k.
Matrices ==
    {[s \in 1..n |-> [k \in 1..len |-> (v[s] * k + s) % 256]] :
        n \in 1..MaxRows, len \in RowLens, v \in [1..MaxRows -> 1..2]}

\* The cell at its reshape statements, with any two matrices as X_train and
\* X_test.
InitReshape ==
    /\ X_train \in Matrices
    /\ X_test \in Matrices
    /\ pc = "reshape_train"
    /\ listing = <<<<>>, <<>>>>
    /\ label = Len(Subfolders)
    /\ pos = 1
    /\ images = <<>>
    /\ labels = <<>>
    /\ out = <<>>
    /\ X = <<>>
    /\ y = <<>>
    /\ idx_train = <<>>
    /\ idx_test = <<>>
    /\ y_train = <<>>
    /\ y_test = <<>>
    /\ scaler = Unfitted
    /\ scaler_calls = <<>>
    /\ err = "none"
    /\ seeded = <<>>
    /\ svm = SvmStart

NextReshape ==
    \/ ReshapeTrain
    \/ ReshapeTrainError
    \/ ReshapeTest
    \/ ReshapeTestError

SpecReshape == InitReshape /\ [][NextReshape]_vars

\* ===== properties ========================================================
\* Entries of subfolder l (0 or 1) the loop has gone through so far.
Processed(l) ==
    IF label > l THEN Len(listing[l + 1])
    ELSE IF label = l THEN pos - 1
    ELSE 0

\* The entries gone through so far, in the order the loop met them.
ProcessedEntries ==
    [p \in 1..Processed(0) |-> [l |-> 0, e |-> listing[1][p]]]
        \o [p \in 1..Processed(1) |-> [l |-> 1, e |-> listing[2][p]]]

IsBad(r) == r.e.fails # "none"

IsOk(r) == r.e.fails = "none"

BadProcessed == SelectSeq(ProcessedEntries, IsBad)

OkProcessed == SelectSeq(ProcessedEntries, IsOk)

\* Entries of the two listings that decode.
TotalOk == (Len(listing[1]) - BadCount(listing[1])) + (Len(listing[2]) - BadCount(listing[2]))

PostSplit == {"scale", "transform", "reshape_train", "reshape_test", "done"}

PostFit == {"transform", "reshape_train", "reshape_test", "done"}

\* C1: an entry whose decoding raises is skipped with a diagnostic that names
\* its path and the reason, and the loop goes on: the printed lines are
\* exactly those of the failed entries met so far, no failure ends the run
\* inside the loop, and once the loop is left every entry of both listings
\* has been processed.
C1_BadEntrySkippedLoadContinues ==
    /\ out = [i \in 1..Len(BadProcessed) |->
                 [path |-> ImgPath(BadProcessed[i].l, BadProcessed[i].e.name),
                  reason |-> BadProcessed[i].e.fails]]
    /\ Len(images) + Len(out) = Len(ProcessedEntries)
    /\ pc # "load" =>
          /\ label = Len(Subfolders)
          /\ Len(ProcessedEntries) = Len(listing[1]) + Len(listing[2])

\* A failed first entry of 'no' was skipped and the entries after it loaded.
C1_Witness ==
    /\ pc = "done"
    /\ Len(listing[1]) >= 2
    /\ listing[1][1].fails # "none"
    /\ Len(out) = 1
    /\ Len(X) = Len(listing[1]) - 1 + Len(listing[2])

\* C3: the number of samples equals the number of entries that decoded, and
\* images and labels have the same length, during the loop and in the
\* returned X, y.
C3_LenIsDecodedCount ==
    /\ Len(images) = Len(OkProcessed)
    /\ Len(labels) = Len(images)
    /\ pc # "load" => (Len(X) = TotalOk /\ Len(y) = Len(X))

\* A listing with a failed entry was loaded: fewer samples than entries.
C3_Witness ==
    /\ pc = "split"
    /\ Len(out) >= 1
    /\ Len(X) >= 2
    /\ Len(X) = Len(listing[1]) + Len(listing[2]) - Len(out)

\* C4: every sample's label is the index of the subfolder it was read from:
\* sample i is the decoding of an entry of subfolder labels[i], and the label
\* sequence is that of the decoded entries in loop order.
C4_LabelIsSubfolderIndex ==
    /\ labels = [i \in 1..Len(OkProcessed) |-> OkProcessed[i].l]
    /\ \A i \in 1..Len(images) :
          /\ labels[i] \in {0, 1}
          /\ \E p \in 1..Len(listing[labels[i] + 1]) :
                /\ listing[labels[i] + 1][p].fails = "none"
                /\ images[i] = Decode(labels[i], listing[labels[i] + 1][p].name)
    /\ pc # "load" => y = labels

\* Samples of both classes were returned, some of them after a skipped entry.
C4_Witness ==
    /\ pc = "split"
    /\ Len(listing[1]) >= 2 /\ listing[1][1].fails # "none"
    /\ Len(listing[2]) >= 2
    /\ y[1] = 0
    /\ y[Len(y)] = 1

\* C5: the samples of 'no' come before the samples of 'yes', and within a
\* class they keep the order of the listing, the skipped entries left out.
C5_ClassThenListingOrder ==
    /\ images = [i \in 1..Len(OkProcessed) |->
                    Decode(OkProcessed[i].l, OkProcessed[i].e.name)]
    /\ \A i, j \in 1..Len(labels) : i < j => labels[i] <= labels[j]
    /\ pc # "load" => X = images

\* Two samples of each class around a skipped middle entry of 'yes'.
C5_Witness ==
    /\ pc = "split"
    /\ Len(listing[1]) >= 2
    /\ Len(listing[2]) = 3 /\ listing[2][2].fails # "none"
    /\ Len(X) = Len(listing[1]) + 2

\* The rows of X that train_test_split put in each subset, unscaled.
TrainRows == [i \in 1..Len(idx_train) |-> X[idx_train[i]]]

TestRows == [i \in 1..Len(idx_test) |-> X[idx_test[i]]]

FitCalls == {i \in 1..Len(scaler_calls) : scaler_calls[i].op = "fit"}

TransformCalls == {i \in 1..Len(scaler_calls) : scaler_calls[i].op = "transform"}

\* C2: the scaler is fit exactly once, on the training rows only, before any
\* transform; no call that sees a test row is a fit; and the stored
\* parameters are those computed from the training rows alone.
C2_FitOnceOnTrainOnly ==
    /\ Cardinality(FitCalls) <= 1
    /\ pc \in PostFit => Cardinality(FitCalls) = 1
    /\ \A i \in FitCalls :
          /\ scaler_calls[i].arg = TrainRows
          /\ \A j \in TransformCalls : i < j
    /\ \A j \in TransformCalls : FitCalls # {}
    /\ \A i \in 1..Len(scaler_calls) :
          (Range(scaler_calls[i].arg) \cap Range(TestRows) # {})
              => scaler_calls[i].op = "transform"
    /\ pc \in PostFit => scaler = StandardScalerFit(TrainRows)
    /\ pc \notin PostFit => scaler = Unfitted

\* Both subsets were transformed after one fit, in a run where fitting on the
\* whole dataset would have given other parameters.
C2_Witness ==
    /\ pc = "done"
    /\ Len(scaler_calls) = 3
    /\ scaler_calls[3].arg = TestRows
    /\ scaler # StandardScalerFit(X)

RoundDiv(a, b) == (2 * a + b) \div (2 * b)

\* C7 as stated: the test subset gets round(0.25 * n) samples and the train
\* subset the remaining ones.
C7_TestSizeIsRound ==
    pc \in PostSplit =>
        /\ Len(idx_test) = RoundDiv(TestSizeNum * Len(X), TestSizeDen)
        /\ Len(idx_train) = Len(X) - RoundDiv(TestSizeNum * Len(X), TestSizeDen)

\* C7 as amended: the test subset gets ceil(0.25 * n) samples, the least t
\* with t >= 0.25 * n, and the train subset the remaining n - t; n = 20
\* gives 15 and 5.
C7_TestSizeIsCeil ==
    /\ pc \in PostSplit =>
          /\ TestSizeDen * Len(idx_test) >= TestSizeNum * Len(X)
          /\ TestSizeDen * (Len(idx_test) - 1) < TestSizeNum * Len(X)
          /\ Len(idx_train) = Len(X) - Len(idx_test)
    /\ NTest(20) = 5
    /\ NTrain(20) = 15

\* Five samples were split into three for training and two for testing.
C7_Witness ==
    /\ pc = "done"
    /\ Len(X) = 5
    /\ Len(idx_test) = 2
    /\ Len(idx_train) = 3

\* X_train and X_test as matrices of scaled rows, before or after the reshape.
TrainFlat ==
    IF pc \in {"reshape_test", "done"}
    THEN [s \in 1..Len(X_train) |-> Ravel(X_train[s])]
    ELSE X_train

TestFlat ==
    IF pc = "done" THEN [s \in 1..Len(X_test) |-> Ravel(X_test[s])] ELSE X_test

\* Column c is constant across the training rows.
ConstantInTrain(c) ==
    \A i, j \in 1..Len(TrainRows) : TrainRows[i][c] = TrainRows[j][c]

\* A scaled cell num / sqrt(den2) is finite when it divides by no zero.
Finite(cell) == cell.den2 > 0

\* C8: a column that is constant across the training rows is scaled by 1
\* instead of by its zero deviation: its fitted scale is 1.0 and every value
\* of that column in the transformed train and test subsets is finite.
C8_ZeroVarianceGuarded ==
    pc \in PostFit =>
        \A c \in 1..RowLen :
            ConstantInTrain(c) =>
                /\ scaler.scale_sq_num[c] = scaler.n_samples_seen * scaler.n_samples_seen
                /\ \A i \in 1..Len(TrainFlat) :
                      Finite(TrainFlat[i][c]) /\ TrainFlat[i][c].num = 0
                /\ pc # "transform" =>
                      \A i \in 1..Len(TestFlat) : Finite(TestFlat[i][c])

\* Several training rows agree on a column in which a test row differs from
\* them, and both subsets were transformed.
C8_Witness ==
    /\ pc = "done"
    /\ Len(idx_train) >= 2
    /\ \E c \in 1..RowLen :
          /\ ConstantInTrain(c)
          /\ \E i \in 1..Len(TestFlat) : TestFlat[i][c].num # 0

\* Sample s of `after` is row s of `before`, relabelled row-major.
RelabelOf(before, after) ==
    /\ Len(after) = Len(before)
    /\ \A s \in 1..Len(before) :
          /\ Ravel(after[s]) = before[s]
          /\ \A i, j \in 0..(SIDE - 1) :
                after[s][i + 1][j + 1] = before[s][SIDE * i + j + 1]

HasBadRow(m) == \E s \in 1..Len(m) : Len(m[s]) # SIDE * SIDE

\* C9: the reshape keeps the number of samples, flattening a reshaped sample
\* gives back its row, element [i][j] of a sample is element SIDE*i + j of
\* its row (counting from 0), and a matrix with a row whose length is not
\* SIDE x SIDE makes the reshape raise.
C9_ReshapeIsRowMajorRelabel ==
    [][/\ (pc = "reshape_train" /\ pc' = "reshape_test") => RelabelOf(X_train, X_train')
       /\ (pc = "reshape_test" /\ pc' = "done") => RelabelOf(X_test, X_test')
       /\ (pc = "reshape_train" /\ HasBadRow(X_train)) => (pc' = "error" /\ err' = "ValueError")
       /\ (pc = "reshape_test" /\ HasBadRow(X_test)) => (pc' = "error" /\ err' = "ValueError")
       /\ (pc = "reshape_train" /\ ~HasBadRow(X_train)) => pc' = "reshape_test"
       /\ (pc = "reshape_test" /\ ~HasBadRow(X_test)) => pc' = "done"]_vars

\* Two different rows were reshaped into two SIDE x SIDE samples.
C9_Witness ==
    /\ pc = "done"
    /\ Len(X_train) = 2
    /\ Len(X_train[1]) = SIDE /\ Len(X_train[1][1]) = SIDE
    /\ X_train[1] # X_train[2]
    /\ X_train[1][1] # X_train[1][2]

\* C10: with fewer than 2 samples the split raises instead of returning a
\* train/test pair: the run ends in the error, no subset is formed and the
\* scaler is never fit.
C10_TooFewSamplesSplitFails ==
    (pc \notin {"load", "split"} /\ Len(X) < 2) =>
        /\ pc = "error"
        /\ err = "ValueError"
        /\ idx_train = <<>> /\ idx_test = <<>>
        /\ X_train = <<>> /\ X_test = <<>>
        /\ scaler_calls = <<>>
        /\ scaler = Unfitted

\* Every listed file failed to decode and the split raised.
C10_Witness ==
    /\ pc = "error"
    /\ Len(listing[1]) + Len(listing[2]) >= 1
    /\ Len(out) = Len(listing[1]) + Len(listing[2])
    /\ Len(X) = 0

SvmEnded == svm.pc \in {"done", "error"}

\* C11: on the same directory the two notebooks load, split and scale alike.
\* Once both runs have ended they printed the same diagnostics, hold the same
\* X and y, ended the same way, put the same indices in train and in test
\* with the same labels, fitted the same scaler, and the RNN notebook's
\* X_train and X_test are the SVM notebook's rows reshaped to SIDE x SIDE:
\* flattening an RNN sample gives the SVM row.
C11_NotebooksAgreeUpToReshape ==
    (RnnEnded /\ SvmEnded) =>
        /\ svm.out = out
        /\ svm.X = X
        /\ svm.y = y
        /\ svm.pc = pc
        /\ svm.err = err
        /\ svm.idx_train = idx_train
        /\ svm.idx_test = idx_test
        /\ svm.y_train = y_train
        /\ svm.y_test = y_test
        /\ svm.scaler = scaler
        /\ Len(svm.X_train) = Len(X_train)
        /\ Len(svm.X_test) = Len(X_test)
        /\ \A s \in 1..Len(X_train) : Ravel(X_train[s]) = svm.X_train[s]
        /\ \A s \in 1..Len(X_test) : Ravel(X_test[s]) = svm.X_test[s]

\* Both runs went through a directory with a skipped entry and at least four
\* samples of two classes; the RNN samples are SIDE x SIDE, the SVM rows flat.
C11_Witness ==
    /\ pc = "done"
    /\ svm.pc = "done"
    /\ Len(out) >= 1
    /\ Len(X) >= 4
    /\ Range(y_train) = {0, 1}
    /\ Len(X_train[1]) = SIDE
    /\ Len(svm.X_train[1]) = SIDE * SIDE
    /\ X_train # svm.X_train

====
